---- MODULE Spec2Model ----
(***************************************************************************)
(* Model of scripts/generate_token_list_file.py: the generator that        *)
(* aggregates mainnet/<dir>/data.json into tokenlist-mainnet.json and      *)
(* bumps the list's semantic version from the difference between the       *)
(* published token list and the newly loaded one.                          *)
(*                                                                         *)
(* Two specifications:                                                     *)
(*   Spec    runs of main() against a file system that changes between     *)
(*           runs (source directories edited, manifest removed);           *)
(*   SpecFn  compare_tokens and increment_version applied to arguments     *)
(*           drawn from bounded sets.                                      *)
(*                                                                         *)
(* Python dicts are records (functions on their keys): a token without a   *)
(* "logoURI" key is a record without that field.                           *)
(***************************************************************************)
EXTENDS Integers, Sequences, FiniteSets, TLC

\* ------------------------------------------------------------------ bounds
\* Directory names under mainnet/ are 1..MaxDirs, ordered as their names sort.
MaxDirs == 2
\* Longest token collection handed to compare_tokens in SpecFn.
MaxLen == 2
\* Largest version component handed to increment_version in SpecFn.
MaxVer == 2
\* Number of times the clock is read (datetime.now) over a behaviour of Spec.
MaxTime == 3

\* --------------------------------------------------------------- constants
TOKEN_LIST_NAME == "Monad Mainnet"
LOGO_URI == "https://raw.githubusercontent.com/monad-crypto/token-list/refs/heads/main/assets/monad.svg"
KEYWORDS == <<"monad mainnet">>
DEFAULT_VERSION_MAJOR == 1
DEFAULT_VERSION_MINOR == 0
DEFAULT_VERSION_PATCH == 0

\* ------------------------------------------------------------ token records
Symbols == {"A", "B"}
Addresses == {"0x1", "0x2"}
Names == {"Foo", "Bar"}

\* What a data.json holds: symbol, address and one opaque metadata field.
AuthoredTokens == [symbol : Symbols, address : Addresses, name : Names]

\* The URL load_token_data derives from a logo file of mainnet/<d>.
LogoUrl(d, logo_filename) == <<"mainnet", d, logo_filename>>

\* Python's None as a change_type.
None == "None"

\* ----------------------------------------------------------- the file system
\* mainnet/<d> is absent, a plain file, or a directory holding data.json
\* (well-formed, invalid JSON5, or missing) and a set of logo files.
Absent == [kind |-> "absent"]
PlainFile == [kind |-> "file"]
InvalidDir == [kind |-> "dir", json |-> "invalid"]
UnreadableDir == [kind |-> "dir", json |-> "missing"]
TokenDir(t, logos) == [kind |-> "dir", json |-> "ok", data |-> t, logos |-> logos]

Dirs == 1..MaxDirs

VARIABLES
    fs,          \* [exists, dirs]: the data directory mainnet/ and its entries
    file,        \* [exists, text]: tokenlist-mainnet.json on disk
    now,         \* the clock: number of timestamps taken so far
    pc,          \* where main() is: idle, writing, or how the last run ended
    existing,    \* what the last run found of the manifest: absent, unparseable, loaded
    token_list,  \* the token list main() is writing (pc = "writing")
    published,   \* history: version of the last manifest written in full
    call         \* SpecFn: one call of compare_tokens or increment_version

vars == <<fs, file, now, pc, existing, token_list, published, call>>

\* --------------------------------------------------------- get_token_dirs
RECURSIVE sorted(_)
sorted(S) ==
    IF S = {} THEN <<>>
    ELSE LET m == CHOOSE x \in S : \A y \in S : x <= y
         IN <<m>> \o sorted(S \ {m})

get_token_dirs(data_dir) ==
    LET listing == {d \in Dirs : data_dir[d].kind # "absent"}
    IN SelectSeq(sorted(listing), LAMBDA f : data_dir[f].kind = "dir")

\* -------------------------------------------------------- load_token_data
Ok(v) == [raised |-> "none", value |-> v]
Raise(e) == [raised |-> e]

load_token_data(data_dir, d) ==
    LET entry == data_dir[d]
        logo_uri == IF "logo.svg" \in entry.logos THEN "logo.svg"
                    ELSE IF "logo.png" \in entry.logos THEN "logo.png"
                    ELSE "none"
    IN IF entry.json = "missing" THEN Raise("OSError")
       ELSE IF entry.json = "invalid" THEN Raise("ValueError")
       ELSE IF logo_uri # "none"
            THEN Ok(("logoURI" :> LogoUrl(d, logo_uri)) @@ entry.data)
            ELSE Ok(entry.data)

\* -------------------------------------------------------- load_all_tokens
\* load_all_tokens that skips an entry that fails to load.
RECURSIVE load_all_tokens_skipping(_, _)
load_all_tokens_skipping(data_dir, token_dirs) ==
    IF token_dirs = <<>> THEN Ok(<<>>)
    ELSE LET first == load_token_data(data_dir, Head(token_dirs))
             rest == load_all_tokens_skipping(data_dir, Tail(token_dirs))
         IN IF first.raised # "none" THEN rest
            ELSE Ok(<<first.value>> \o rest.value)

RECURSIVE load_all_tokens(_, _)
load_all_tokens(data_dir, token_dirs) ==
    IF token_dirs = <<>> THEN Ok(<<>>)
    ELSE LET first == load_token_data(data_dir, Head(token_dirs))
         IN IF first.raised # "none" THEN first
            ELSE LET rest == load_all_tokens(data_dir, Tail(token_dirs))
                 IN IF rest.raised # "none" THEN rest
                    ELSE Ok(<<first.value>> \o rest.value)

\* --------------------------------------------------------- compare_tokens
\* {t["symbol"]: t for t in tokens}: a later token replaces an earlier one.
symbol_map(tokens) ==
    [s \in {tokens[i].symbol : i \in DOMAIN tokens} |->
        tokens[CHOOSE i \in DOMAIN tokens :
                  /\ tokens[i].symbol = s
                  /\ \A j \in DOMAIN tokens : tokens[j].symbol = s => j <= i]]

\* compare_tokens with the check for added tokens moved to the front.
compare_tokens_added_first(old_tokens, new_tokens) ==
    LET old_map == symbol_map(old_tokens)
        new_map == symbol_map(new_tokens)
        old_keys == DOMAIN old_map
        new_keys == DOMAIN new_map
        removed == old_keys \ new_keys
        added == new_keys \ old_keys
        moved == {key \in old_keys \cap new_keys :
                     old_map[key].address # new_map[key].address}
        edited == {key \in old_keys \cap new_keys : old_map[key] # new_map[key]}
    IN IF added # {}
       THEN [change_type |-> "minor", description |-> <<"Tokens added", added>>]
       ELSE IF removed # {}
       THEN [change_type |-> "major", description |-> <<"Tokens removed", removed>>]
       ELSE IF moved # {}
       THEN [change_type |-> "major", description |-> <<"Token address changed", moved>>]
       ELSE IF edited # {}
       THEN [change_type |-> "patch", description |-> <<"Token metadata updated", {}>>]
       ELSE [change_type |-> None, description |-> <<None, {}>>]

\* description: the message's fixed text and the symbols it is drawn from
\* (all of them joined, or one of them for a changed address).
compare_tokens(old_tokens, new_tokens) ==
    LET old_map == symbol_map(old_tokens)
        new_map == symbol_map(new_tokens)
        old_keys == DOMAIN old_map
        new_keys == DOMAIN new_map
        removed == old_keys \ new_keys
        added == new_keys \ old_keys
        moved == {key \in old_keys \cap new_keys :
                     old_map[key].address # new_map[key].address}
        edited == {key \in old_keys \cap new_keys : old_map[key] # new_map[key]}
    IN IF removed # {}
       THEN [change_type |-> "major", description |-> <<"Tokens removed", removed>>]
       ELSE IF moved # {}
       THEN [change_type |-> "major", description |-> <<"Token address changed", moved>>]
       ELSE IF added # {}
       THEN [change_type |-> "minor", description |-> <<"Tokens added", added>>]
       ELSE IF edited # {}
       THEN [change_type |-> "patch", description |-> <<"Token metadata updated", {}>>]
       ELSE [change_type |-> None, description |-> <<None, {}>>]

\* ------------------------------------------------------ increment_version
\* increment_version whose minor bump forgets to reset patch.
increment_version_keeps_patch(current_version, change_type) ==
    LET major == current_version.major
        minor == current_version.minor
        patch == current_version.patch
    IN IF change_type = "major"
       THEN [major |-> major + 1, minor |-> 0, patch |-> 0]
       ELSE IF change_type = "minor"
       THEN [major |-> major, minor |-> minor + 1, patch |-> patch]
       ELSE IF change_type = "patch"
       THEN [major |-> major, minor |-> minor, patch |-> patch + 1]
       ELSE [major |-> major, minor |-> minor, patch |-> patch]

\* increment_version that takes a patch change for no change.
increment_version_ignores_patch(current_version, change_type) ==
    LET major == current_version.major
        minor == current_version.minor
        patch == current_version.patch
    IN IF change_type = "major"
       THEN [major |-> major + 1, minor |-> 0, patch |-> 0]
       ELSE IF change_type = "minor"
       THEN [major |-> major, minor |-> minor + 1, patch |-> 0]
       ELSE [major |-> major, minor |-> minor, patch |-> patch]

increment_version(current_version, change_type) ==
    LET major == current_version.major
        minor == current_version.minor
        patch == current_version.patch
    IN IF change_type = "major"
       THEN [major |-> major + 1, minor |-> 0, patch |-> 0]
       ELSE IF change_type = "minor"
       THEN [major |-> major, minor |-> minor + 1, patch |-> 0]
       ELSE IF change_type = "patch"
       THEN [major |-> major, minor |-> minor, patch |-> patch + 1]
       ELSE [major |-> major, minor |-> minor, patch |-> patch]

\* ------------------------------------------------------ create_token_list
create_token_list(tokens, version, timestamp) ==
    [name |-> TOKEN_LIST_NAME, logoURI |-> LOGO_URI, keywords |-> KEYWORDS,
     timestamp |-> timestamp, tokens |-> tokens, version |-> version]

\* ------------------------------------------- json5.dump / json5.load
\* A JSON5 text is the sequence of the object's members, <<key, value>>
\* each, in the order the dict holds its keys, closed by "}". A text cut
\* short is a proper prefix: it has no closing "}".
Close == <<"}", "}">>
TokenListKeys == <<"name", "logoURI", "keywords", "timestamp", "tokens", "version">>
TokenKeys == <<"symbol", "address", "name", "logoURI">>
VersionKeys == <<"major", "minor", "patch">>

dump_object(obj, keys) ==
    LET present == SelectSeq(keys, LAMBDA k : k \in DOMAIN obj)
    IN [i \in 1..Len(present) |-> <<present[i], obj[present[i]]>>]

load_object(members) ==
    [k \in {members[i][1] : i \in DOMAIN members} |->
        members[CHOOSE i \in DOMAIN members : members[i][1] = k][2]]

\* dump_token that leaves the "logoURI" member out.
dump_token_without_logo(t) ==
    dump_object(t, <<"symbol", "address", "name">>)

dump_token(t) ==
    dump_object(t, TokenKeys)

json5_dump(obj) ==
    dump_object([obj EXCEPT
                    !.tokens = [i \in DOMAIN obj.tokens |-> dump_token(obj.tokens[i])],
                    !.version = dump_object(obj.version, VersionKeys)],
                TokenListKeys)
    \o <<Close>>

json5_load(text) ==
    IF text = <<>> \/ text[Len(text)] # Close
    THEN Raise("ValueError")
    ELSE LET obj == load_object(SubSeq(text, 1, Len(text) - 1))
         IN Ok([obj EXCEPT
                   !.tokens = [i \in DOMAIN obj.tokens |-> load_object(obj.tokens[i])],
                   !.version = load_object(obj.version)])

\* ------------------------------------------------ load_existing_token_list
\* load_existing_token_list that reads a text cut short as an empty list of
\* version 0.0.0.
load_existing_token_list_lenient(output) ==
    IF ~output.exists THEN [found |-> FALSE, why |-> "absent"]
    ELSE LET parsed == json5_load(output.text)
         IN IF parsed.raised # "none"
            THEN [found |-> TRUE, why |-> "loaded",
                  value |-> [tokens |-> <<>>,
                             version |-> [major |-> 0, minor |-> 0, patch |-> 0]]]
            ELSE [found |-> TRUE, why |-> "loaded", value |-> parsed.value]

\* None (found = FALSE) when the file does not exist or does not parse.
load_existing_token_list(output) ==
    IF ~output.exists THEN [found |-> FALSE, why |-> "absent"]
    ELSE LET parsed == json5_load(output.text)
         IN IF parsed.raised # "none"
            THEN [found |-> FALSE, why |-> "unparseable"]
            ELSE [found |-> TRUE, why |-> "loaded", value |-> parsed.value]

\* ------------------------------------------------------------ the state
NoFile == [exists |-> FALSE, text |-> <<>>]
NoTokenList == [tokens |-> <<>>]
NoCall == [fn |-> "none"]
NoDirs == [d \in Dirs |-> Absent]
NotPublished == [some |-> FALSE]
DefaultVersion ==
    [major |-> DEFAULT_VERSION_MAJOR, minor |-> DEFAULT_VERSION_MINOR,
     patch |-> DEFAULT_VERSION_PATCH]

\* The entries the environment puts under mainnet/ in Spec.
TokenA == [symbol |-> "A", address |-> "0x1", name |-> "Foo"]
TokenB == [symbol |-> "B", address |-> "0x1", name |-> "Foo"]
SourceEntries ==
    {Absent, PlainFile, InvalidDir, UnreadableDir,
     TokenDir(TokenA, {}), TokenDir(TokenA, {"logo.svg", "logo.png"}),
     TokenDir(TokenB, {})}

Init ==
    /\ fs = [exists |-> TRUE, dirs |-> NoDirs]
    /\ file = NoFile
    /\ now = 0
    /\ pc = "idle"
    /\ existing = "none"
    /\ token_list = NoTokenList
    /\ published = NotPublished
    /\ call = NoCall

\* --------------------------------------------------- the environment
Idle == pc' = "idle" /\ existing' = "none" /\ UNCHANGED <<now, token_list, published, call>>

\* mainnet/<d> is created, edited or deleted between two runs.
SetEntry ==
    /\ pc # "writing"
    /\ fs.exists
    /\ \E d \in Dirs, e \in SourceEntries :
          /\ fs.dirs[d] # e
          /\ fs' = [fs EXCEPT !.dirs[d] = e]
    /\ UNCHANGED file
    /\ Idle

\* mainnet/ itself is deleted, or created empty.
SetDataDir ==
    /\ pc # "writing"
    /\ fs' = [exists |-> ~fs.exists, dirs |-> NoDirs]
    /\ UNCHANGED file
    /\ Idle

\* tokenlist-mainnet.json is deleted between two runs.
RemoveManifest ==
    /\ pc # "writing"
    /\ file.exists
    /\ file' = NoFile
    /\ UNCHANGED fs
    /\ Idle

\* ------------------------------------------------------------- main
\* A run that ends without opening the output file.
End(outcome, found) ==
    /\ pc' = outcome
    /\ existing' = found
    /\ UNCHANGED <<file, now, token_list, published>>

\* new_timestamp, create_token_list and write_token_list up to
\* output_path.open(mode="w"), which truncates the file or raises OSError.
Open(new_tokens, new_version, found) ==
    /\ now < MaxTime
    /\ now' = now + 1
    /\ existing' = found
    /\ \/ /\ pc' = "writing"
          /\ file' = [exists |-> TRUE, text |-> <<>>]
          /\ token_list' = create_token_list(new_tokens, new_version, now + 1)
       \/ /\ pc' = "failed"
          /\ UNCHANGED <<file, token_list>>
    /\ UNCHANGED published

Main ==
    /\ pc # "writing"
    /\ UNCHANGED <<fs, call>>
    /\ IF ~fs.exists THEN End("failed", "none")
       ELSE LET token_dirs == get_token_dirs(fs.dirs)
                existing_token_list == load_existing_token_list(file)
                loaded == load_all_tokens(fs.dirs, token_dirs)
                new_tokens == loaded.value
                compared == compare_tokens(existing_token_list.value.tokens, new_tokens)
                old_version == existing_token_list.value.version
            IN IF token_dirs = <<>> THEN End("no_tokens", "none")
               ELSE IF loaded.raised # "none"
               THEN End("failed", existing_token_list.why)
               ELSE IF existing_token_list.found
               THEN IF compared.change_type = None
                    THEN End("no_change", "loaded")
                    ELSE Open(new_tokens,
                              increment_version(old_version, compared.change_type),
                              "loaded")
               ELSE Open(new_tokens, DefaultVersion, existing_token_list.why)

\* json5.dump into the opened file: the whole text, or OSError part-way.
Dump ==
    /\ pc = "writing"
    /\ LET text == json5_dump(token_list)
       IN \E k \in 0..Len(text) :
             /\ file' = [exists |-> TRUE, text |-> SubSeq(text, 1, k)]
             /\ IF k = Len(text)
                THEN /\ pc' = "done"
                     /\ published' = [some |-> TRUE, version |-> token_list.version]
                ELSE /\ pc' = "failed"
                     /\ UNCHANGED published
    /\ token_list' = NoTokenList
    /\ UNCHANGED <<fs, now, existing, call>>

Next == SetEntry \/ SetDataDir \/ RemoveManifest \/ Main \/ Dump

Spec == Init /\ [][Next]_vars

\* ------------------------------------ SpecFn: the two functions on their own
TokenLists == UNION {[1..n -> AuthoredTokens] : n \in 0..MaxLen}
Versions == [major : 0..MaxVer, minor : 0..MaxVer, patch : 0..MaxVer]
\* The four change types main() passes on, and one it never produces.
ChangeTypes == {"major", "minor", "patch", None}
Classifications == ChangeTypes \cup {"breaking"}

CompareCalls ==
    {[fn |-> "compare_tokens", state |-> "args", old_tokens |-> o, new_tokens |-> n] :
        o \in TokenLists, n \in TokenLists}
VersionCalls ==
    {[fn |-> "increment_version", state |-> "args", current_version |-> v, change_type |-> c] :
        v \in Versions, c \in Classifications}

InitFn ==
    /\ fs = [exists |-> TRUE, dirs |-> NoDirs]
    /\ file = NoFile
    /\ now = 0
    /\ pc = "idle"
    /\ existing = "none"
    /\ token_list = NoTokenList
    /\ published = NotPublished
    /\ call \in CompareCalls \cup VersionCalls

CallCompareTokens ==
    /\ call.fn = "compare_tokens"
    /\ call.state = "args"
    /\ call' = [fn |-> call.fn, state |-> "returned",
                old_tokens |-> call.old_tokens, new_tokens |-> call.new_tokens,
                result |-> compare_tokens(call.old_tokens, call.new_tokens)]
    /\ UNCHANGED <<fs, file, now, pc, existing, token_list, published>>

\* increment_version has no raise statement: it returns for every change_type.
CallIncrementVersion ==
    /\ call.fn = "increment_version"
    /\ call.state = "args"
    /\ call' = [fn |-> call.fn, state |-> "returned",
                current_version |-> call.current_version,
                change_type |-> call.change_type,
                raised |-> "none",
                version |-> increment_version(call.current_version, call.change_type)]
    /\ UNCHANGED <<fs, file, now, pc, existing, token_list, published>>

NextFn == CallCompareTokens \/ CallIncrementVersion

SpecFn == InitFn /\ [][NextFn]_vars

\* ======================================================= claims, SpecFn
Returned(fn) == call.fn = fn /\ call.state = "returned"

symbols(tokens) == {tokens[i].symbol : i \in DOMAIN tokens}
unique_symbols(tokens) ==
    \A i, j \in DOMAIN tokens : tokens[i].symbol = tokens[j].symbol => i = j

\* The four checks of the cascade, stated on the two collections themselves.
SomeRemoved(old, new) == \E s \in symbols(old) : s \notin symbols(new)
SomeAdded(old, new) == \E s \in symbols(new) : s \notin symbols(old)
SomeAddressChanged(old, new) ==
    \E i \in DOMAIN old, j \in DOMAIN new :
        old[i].symbol = new[j].symbol /\ old[i].address # new[j].address
SomeRecordChanged(old, new) ==
    \E i \in DOMAIN old, j \in DOMAIN new :
        old[i].symbol = new[j].symbol /\ old[i] # new[j]

\* C1: for collections with unique symbols compare_tokens returns the
\* classification of the first matching check, in the order removed (major),
\* address changed (major), added (minor), record changed (patch), else None;
\* so removal or address change with an addition is major, and an addition
\* with a metadata edit is minor.
C1_FirstMatchWins ==
    (/\ Returned("compare_tokens")
     /\ unique_symbols(call.old_tokens)
     /\ unique_symbols(call.new_tokens))
    => LET old == call.old_tokens
           new == call.new_tokens
       IN call.result.change_type =
            IF SomeRemoved(old, new) THEN "major"
            ELSE IF SomeAddressChanged(old, new) THEN "major"
            ELSE IF SomeAdded(old, new) THEN "minor"
            ELSE IF SomeRecordChanged(old, new) THEN "patch"
            ELSE None

\* A removal together with an addition has been classified major.
C1_Witness ==
    /\ Returned("compare_tokens")
    /\ unique_symbols(call.old_tokens)
    /\ unique_symbols(call.new_tokens)
    /\ SomeRemoved(call.old_tokens, call.new_tokens)
    /\ SomeAdded(call.old_tokens, call.new_tokens)
    /\ call.result.change_type = "major"

\* Lexicographic order on (major, minor, patch).
VersionLess(v, w) ==
    \/ v.major < w.major
    \/ v.major = w.major /\ v.minor < w.minor
    \/ v.major = w.major /\ v.minor = w.minor /\ v.patch < w.patch

\* The result of a bump of exactly one component, lower components reset.
BumpOf(v, c) ==
    CASE c = "major" -> [major |-> v.major + 1, minor |-> 0, patch |-> 0]
      [] c = "minor" -> [major |-> v.major, minor |-> v.minor + 1, patch |-> 0]
      [] c = "patch" -> [major |-> v.major, minor |-> v.minor, patch |-> v.patch + 1]
      [] OTHER -> v

\* C3 as stated: increment_version never decreases any component, a
\* non-None classification raises exactly one component by 1 and resets the
\* lower ones to 0 on major and minor, and None returns the version unchanged.
C3_NoComponentDecreases ==
    (Returned("increment_version") /\ call.change_type \in ChangeTypes)
    => LET v == call.current_version
           w == call.version
       IN /\ w.major >= v.major /\ w.minor >= v.minor /\ w.patch >= v.patch
          /\ w = BumpOf(v, call.change_type)

\* C3 amended: increment_version never decreases the version in (major,
\* minor, patch) order; a non-None classification raises exactly one
\* component by 1, resetting the lower ones to 0 on major and minor (which
\* may lower them), and None returns the version unchanged.
C3_VersionNeverDecreases ==
    (Returned("increment_version") /\ call.change_type \in ChangeTypes)
    => LET v == call.current_version
           w == call.version
       IN /\ ~VersionLess(w, v)
          /\ call.change_type # None => VersionLess(v, w)
          /\ w = BumpOf(v, call.change_type)

\* A minor bump of a version with a non-zero patch has reset the patch.
C3_Witness ==
    /\ Returned("increment_version")
    /\ call.change_type = "minor"
    /\ call.current_version.patch > 0
    /\ call.version.patch = 0
    /\ call.version.minor = call.current_version.minor + 1

\* C7: increment_version called with a classification other than major,
\* minor, patch, None fails with InvalidState and returns no version.
C7_UnknownClassificationFails ==
    (Returned("increment_version") /\ call.change_type \notin ChangeTypes)
    => call.raised = "InvalidState"

\* C9: compare_tokens returns None only when every record of old has an
\* equal record in new and every record of new has an equal record in old,
\* also for collections in which a symbol occurs more than once.
C9_NoneOnlyWhenIdentical ==
    (Returned("compare_tokens") /\ call.result.change_type = None)
    => /\ \A i \in DOMAIN call.old_tokens :
             \E j \in DOMAIN call.new_tokens : call.old_tokens[i] = call.new_tokens[j]
       /\ \A j \in DOMAIN call.new_tokens :
             \E i \in DOMAIN call.old_tokens : call.old_tokens[i] = call.new_tokens[j]

\* ========================================================= claims, Spec
\* A step of Main: env steps end idle, Dump starts from writing.
MainStep == pc # "writing" /\ pc' # "idle"
DumpDone == pc = "writing" /\ pc' = "done"

Parseable(f) == f.exists /\ f.text # <<>> /\ f.text[Len(f.text)] = Close
Manifest(f) == json5_load(f.text).value

HasTokenDir == \E d \in Dirs : fs.dirs[d].kind = "dir"
SomeLoadFails == \E d \in Dirs : fs.dirs[d].kind = "dir" /\ fs.dirs[d].json # "ok"
Aggregated == load_all_tokens(fs.dirs, get_token_dirs(fs.dirs)).value

Bumps(v) == {BumpOf(v, c) : c \in {"major", "minor", "patch"}}

\* C2: compare_tokens(T, T) is None, and a run of main() that directly
\* follows a successful run, the sources unchanged, ends with no change and
\* leaves the manifest on disk as it was (version, timestamp, tokens).
C2_SecondRunIsNoOp ==
    [][(pc \in {"done", "no_change"} /\ MainStep)
        => /\ \A T \in TokenLists : compare_tokens(T, T).change_type = None
           /\ compare_tokens(Aggregated, Aggregated).change_type = None
           /\ pc' = "no_change"
           /\ file' = file
           /\ now' = now]_vars

\* A run has ended with no change on the manifest the latest write left.
C2_Witness ==
    /\ pc = "no_change"
    /\ existing = "loaded"
    /\ Parseable(file)
    /\ Manifest(file).timestamp = now
    /\ Manifest(file).tokens = Aggregated

\* C4 as stated: across runs, also those that find the manifest absent or
\* unparseable, each run that writes publishes the previously published
\* version with exactly one component incremented, so the published version
\* never decreases; a run that detects no change leaves it unchanged.
C4_PublishedVersionOnlyGrows ==
    [][/\ (DumpDone /\ published.some)
            => published'.version \in Bumps(published.version)
       /\ (MainStep /\ pc' = "no_change") => file' = file]_vars

\* C4 amended: a run that loads the existing manifest and writes publishes
\* that manifest's version with exactly one component incremented (the lower
\* ones reset); a run that detects no change leaves the manifest unchanged;
\* a run that finds the manifest absent or unparseable publishes the default
\* version, whatever was published before.
C4_BumpsLoadedVersion ==
    [][/\ (MainStep /\ pc' = "writing")
            => IF Parseable(file)
               THEN token_list'.version \in Bumps(Manifest(file).version)
               ELSE token_list'.version = DefaultVersion
       /\ (MainStep /\ pc' = "no_change") => (Parseable(file) /\ file' = file)
       /\ DumpDone => (/\ Parseable(file')
                       /\ Manifest(file').version = token_list.version
                       /\ published'.version = token_list.version)]_vars

\* A run that loaded the manifest has published a version above the default.
C4_Witness ==
    /\ pc = "done"
    /\ existing = "loaded"
    /\ Parseable(file)
    /\ VersionLess(DefaultVersion, Manifest(file).version)

\* C5: a run never opens the output file, and leaves the manifest as it is,
\* when mainnet/ is missing (exit 1), when it holds no token directory
\* (exit 0), or when one source entry fails to load (exit 1).
C5_NoWriteOnBadInput ==
    [][(MainStep /\ (~fs.exists \/ ~HasTokenDir \/ SomeLoadFails))
        => /\ file' = file
           /\ token_list' = token_list
           /\ pc' = IF fs.exists /\ ~HasTokenDir THEN "no_tokens" ELSE "failed"]_vars

\* A run has failed on a source entry and the published manifest is intact.
C5_Witness ==
    /\ pc = "failed"
    /\ SomeLoadFails
    /\ Parseable(file)
    /\ published.some
    /\ Manifest(file).version = published.version

\* C6: in every state of a run, also one in which the write fails part-way,
\* tokenlist-mainnet.json is a complete manifest (the previous or the new
\* one), never an empty or truncated file.
C6_WriteIsAllOrNothing ==
    file.exists => Parseable(file)

\* C8: with the manifest absent or unparseable, at least one token directory
\* and every entry loading, the run takes the first-publish path: it writes
\* the default version, a fresh timestamp and the aggregated tokens,
\* whatever the unparseable file held.
C8_FirstPublish ==
    [][/\ (MainStep /\ fs.exists /\ HasTokenDir /\ ~SomeLoadFails /\ ~Parseable(file))
            => /\ existing' = (IF file.exists THEN "unparseable" ELSE "absent")
               /\ now' = now + 1
               /\ \/ pc' = "failed" /\ file' = file
                  \/ /\ pc' = "writing"
                     /\ token_list' = create_token_list(Aggregated, DefaultVersion, now + 1)
       /\ (DumpDone /\ existing # "loaded")
            => /\ Parseable(file')
               /\ Manifest(file').version = DefaultVersion
               /\ Manifest(file').timestamp = now
               /\ Manifest(file').tokens = Aggregated]_vars

\* A first publish over an unparseable (truncated) manifest has completed.
C8_Witness ==
    /\ pc = "done"
    /\ existing = "unparseable"
    /\ Parseable(file)
    /\ Manifest(file).version = DefaultVersion
    /\ Manifest(file).tokens = Aggregated

\* C10: whenever a run with at least one source entry has ended
\* successfully (written, or no change), the tokens of the manifest on disk
\* are the collection aggregated in that run, in the same order.
C10_ManifestMatchesSources ==
    pc \in {"done", "no_change"} => Manifest(file).tokens = Aggregated

====
